---- MODULE Spec2Model ----
(***************************************************************************)
(* Model of src/src/lib.rs: LRUCache<K, V>, a fixed-size cache made of a    *)
(* HashMap from key to (value, node index), a Vec of nodes carrying a key   *)
(* and a forward link `next`, and the two indices `head` and `tail`.        *)
(*                                                                         *)
(* Node indices are the 0-based indices of the Rust Vec; node i of the Vec  *)
(* is element i + 1 of the sequence `nodes`.  Option<usize> is modelled by  *)
(* the index itself for Some(i) and by None for None.  A panic (unwrap of   *)
(* None, index out of bounds) ends the run: no operation follows it.        *)
(***************************************************************************)
EXTENDS Integers, Sequences, FiniteSets

NumKeys == 3
NumVals == 2
MaxSize == 2

Keys == 1..NumKeys
Vals == 1..NumVals
Sizes == 0..MaxSize

(***************************************************************************)
(* One more key and one more size, for the histories that need three nodes  *)
(* and a fourth key.                                                        *)
(***************************************************************************)
WideKeys == 1..(NumKeys + 1)
WideSizes == 0..(MaxSize + 1)

None == -1

(***************************************************************************)
(* HashMap<K, (V, usize)>: a function from the resident keys to <<v, i>>.   *)
(***************************************************************************)
HashMap_new == [x \in {} |-> <<None, None>>]

insert(t, k, e) == [x \in (DOMAIN t) \cup {k} |-> IF x = k THEN e ELSE t[x]]

remove(t, k) == [x \in (DOMAIN t) \ {k} |-> t[x]]

Node_new(k) == [key |-> k, next |-> None]

new(size) ==
    [table |-> HashMap_new, nodes |-> <<>>, head |-> None, tail |-> None,
     size |-> size]

(***************************************************************************)
(* Outcome of one call: the cache as the call leaves it, whether the call   *)
(* panicked, and the returned value (None for `()` and for Option::None).   *)
(***************************************************************************)
Ok(c, ret) == [c |-> c, panic |-> FALSE, ret |-> ret]

Panicked(c) == [c |-> c, panic |-> TRUE, ret |-> None]

InBounds(c, i) == i >= 0 /\ i < Len(c.nodes)

\* append that leaves the table entry out when the cache is not empty
append_noInsert(self, k, v) ==
    IF self.nodes = <<>>
    THEN Ok([self EXCEPT !.nodes = Append(self.nodes, Node_new(k)),
                         !.head = 0,
                         !.tail = 0,
                         !.table = insert(self.table, k, <<v, 0>>)], None)
    ELSE LET new_i == Len(self.nodes)
             s1 == [self EXCEPT !.nodes = Append(self.nodes, Node_new(k))]
         IN  IF ~InBounds(s1, s1.head)
             THEN Panicked(s1)
             ELSE Ok([s1 EXCEPT !.nodes[s1.head + 1].next = new_i,
                                !.head = new_i], None)

append(self, k, v) ==
    IF self.nodes = <<>>
    THEN Ok([self EXCEPT !.nodes = Append(self.nodes, Node_new(k)),
                         !.head = 0,
                         !.tail = 0,
                         !.table = insert(self.table, k, <<v, 0>>)], None)
    ELSE LET new_i == Len(self.nodes)
             s1 == [self EXCEPT !.nodes = Append(self.nodes, Node_new(k))]
         IN  IF ~InBounds(s1, s1.head)
             THEN Panicked(s1)
             ELSE Ok([s1 EXCEPT !.nodes[s1.head + 1].next = new_i,
                                !.head = new_i,
                                !.table = insert(s1.table, k, <<v, new_i>>)],
                     None)

(***************************************************************************)
(* The steps shared by put on a present key (lines 46-54) and get on a hit  *)
(* (lines 101-108): the tail moves to its successor when the matched node   *)
(* i is the tail, then the prior head links to i and i becomes the head.    *)
(***************************************************************************)
MoveTail(self, i) ==
    IF self.tail # None /\ self.tail = i
    THEN [self EXCEPT !.tail = self.nodes[self.tail + 1].next]
    ELSE self

LinkHead(self, i) ==
    IF ~InBounds(self, self.head)
    THEN Panicked(self)
    ELSE Ok([self EXCEPT !.nodes[self.head + 1].next = i, !.head = i], None)

\* the update branch of put with the value left as it was
put_existing_keepValue(self, k, v, i) == LinkHead(MoveTail(self, i), i)

put_existing(self, k, v, i) ==
    LET s1 == [self EXCEPT !.table = insert(self.table, k, <<v, i>>)]
    IN  LinkHead(MoveTail(s1, i), i)

\* the eviction branch of put removing the key of the head node from the
\* table instead of the key of the tail node
put_evict_removeHead(self, k, v) ==
    IF self.head = None \/ self.tail = None
    THEN Panicked(self)
    ELSE LET head == self.head
             tail == self.tail
             s1 == [self EXCEPT !.table =
                       remove(self.table, self.nodes[head + 1].key)]
             s2 == [s1 EXCEPT !.nodes[head + 1].next = s1.tail]
             s3 == [s2 EXCEPT !.tail = s2.nodes[tail + 1].next]
             s4 == [s3 EXCEPT !.head = tail]
             s5 == [s4 EXCEPT !.nodes[tail + 1] = Node_new(k)]
         IN  Ok([s5 EXCEPT !.table = insert(s5.table, k, <<v, tail>>)], None)

\* the eviction branch of put with the key of the reused node left in the
\* table
put_evict_keepOldKey(self, k, v) ==
    IF self.head = None \/ self.tail = None
    THEN Panicked(self)
    ELSE LET head == self.head
             tail == self.tail
             s2 == [self EXCEPT !.nodes[head + 1].next = self.tail]
             s3 == [s2 EXCEPT !.tail = s2.nodes[tail + 1].next]
             s4 == [s3 EXCEPT !.head = tail]
             s5 == [s4 EXCEPT !.nodes[tail + 1] = Node_new(k)]
         IN  Ok([s5 EXCEPT !.table = insert(s5.table, k, <<v, tail>>)], None)

put_evict(self, k, v) ==
    IF self.head = None \/ self.tail = None
    THEN Panicked(self)
    ELSE LET head == self.head
             tail == self.tail
             s1 == [self EXCEPT !.table =
                       remove(self.table, self.nodes[tail + 1].key)]
             s2 == [s1 EXCEPT !.nodes[head + 1].next = s1.tail]
             s3 == [s2 EXCEPT !.tail = s2.nodes[tail + 1].next]
             s4 == [s3 EXCEPT !.head = tail]
             s5 == [s4 EXCEPT !.nodes[tail + 1] = Node_new(k)]
         IN  Ok([s5 EXCEPT !.table = insert(s5.table, k, <<v, tail>>)], None)

\* put that still appends when the nodes already number size
put_appendWhenFull(self, k, v) ==
    LET existing == IF k \in DOMAIN self.table THEN self.table[k][2] ELSE None
    IN  IF existing # None
        THEN put_existing(self, k, v, existing)
        ELSE IF Len(self.nodes) <= self.size
             THEN append(self, k, v)
             ELSE put_evict(self, k, v)

put(self, k, v) ==
    LET existing == IF k \in DOMAIN self.table THEN self.table[k][2] ELSE None
    IN  IF existing # None
        THEN put_existing(self, k, v, existing)
        ELSE IF Len(self.nodes) < self.size
             THEN append(self, k, v)
             ELSE put_evict(self, k, v)

\* get that moves the tail forward before it finds the key missing
get_missMovesTail(self, k) ==
    IF k \notin DOMAIN self.table
    THEN Ok(MoveTail(self, self.tail), None)
    ELSE LET i == self.table[k][2]
             r == LinkHead(MoveTail(self, i), i)
         IN  IF r.panic THEN r ELSE Ok(r.c, r.c.table[k][1])

\* get that returns the value of a present key without relinking its node
get_noPromote(self, k) ==
    IF k \notin DOMAIN self.table
    THEN Ok(self, None)
    ELSE Ok(self, self.table[k][1])

\* get that takes the entry out of the table as it returns its value
get_take(self, k) ==
    IF k \notin DOMAIN self.table
    THEN Ok(self, None)
    ELSE LET i == self.table[k][2]
             r == LinkHead(MoveTail(self, i), i)
         IN  IF r.panic THEN r
             ELSE Ok([r.c EXCEPT !.table = remove(r.c.table, k)],
                     r.c.table[k][1])

get(self, k) ==
    IF k \notin DOMAIN self.table
    THEN Ok(self, None)
    ELSE LET i == self.table[k][2]
             r == LinkHead(MoveTail(self, i), i)
         IN  IF r.panic THEN r ELSE Ok(r.c, r.c.table[k][1])

(***************************************************************************)
(* State.  cache is the LRUCache object.  The other variables observe the   *)
(* calls made on it: lastOp is the latest call (again: it is a get that      *)
(* repeats the get hit right before it), prevGet is, when the latest  *)
(* call is a put, the get hit that came right before it (NoGet in every     *)
(* other case) with whether its key was then the least recently touched     *)
(* one, touched lists                                                       *)
(* the resident keys from the least to the most recently touched (created   *)
(* or updated by put, or hit by get), and run follows a history that so     *)
(* far consists of puts of pairwise distinct keys ("puts"), or of at most   *)
(* size such puts followed by gets only ("gets").                           *)
(***************************************************************************)
VARIABLES cache, lastOp, prevGet, touched, run

vars == <<cache, lastOp, prevGet, touched, run>>

Call(op, k, v, before, r) ==
    [op |-> op, key |-> k, val |-> v, ret |-> r.ret, panic |-> r.panic,
     hit |-> (k \in DOMAIN before.table),
     full |-> (Len(before.nodes) >= before.size),
     lru |-> (touched # <<>> /\ Head(touched) = k),
     again |-> (op = "get" /\ lastOp.op = "get" /\ lastOp.key = k
                /\ lastOp.hit /\ ~lastOp.panic),
     changed |-> (k \in DOMAIN before.table /\ op = "put"
                  /\ before.table[k][1] # v),
     evicted |-> (DOMAIN before.table) \ (DOMAIN r.c.table)]

NoCall == [op |-> "none", key |-> None, val |-> None, ret |-> None,
           panic |-> FALSE, hit |-> FALSE, full |-> FALSE, lru |-> FALSE,
           again |-> FALSE, changed |-> FALSE, evicted |-> {}]

NoGet == [key |-> None, lru |-> FALSE]

Without(s, k) == SelectSeq(s, LAMBDA x : x # k)

Touch(s, k, resident) ==
    SelectSeq(Append(Without(s, k), k), LAMBDA x : x \in resident)

PutKeys(s) == {s[n][1] : n \in 1..Len(s)}

RunAfterPut(k, v) ==
    IF run.phase = "puts" /\ k \notin PutKeys(run.puts)
    THEN [phase |-> "puts", puts |-> Append(run.puts, <<k, v>>)]
    ELSE [phase |-> "other", puts |-> <<>>]

RunAfterGet ==
    IF run.phase \in {"puts", "gets"} /\ Len(run.puts) <= cache.size
    THEN [phase |-> "gets", puts |-> run.puts]
    ELSE [phase |-> "other", puts |-> <<>>]

GetHit(call) ==
    IF call.op = "get" /\ call.hit /\ ~call.panic
    THEN [key |-> call.key, lru |-> call.lru]
    ELSE NoGet

InitOf(sizes) ==
    /\ \E size \in sizes : cache = new(size)
    /\ lastOp = [NoCall EXCEPT !.op = "new"]
    /\ prevGet = NoGet
    /\ touched = <<>>
    /\ run = [phase |-> "puts", puts |-> <<>>]

Put(k, v) ==
    /\ ~lastOp.panic
    /\ LET r == put(cache, k, v)
       IN  /\ cache' = r.c
           /\ lastOp' = Call("put", k, v, cache, r)
           /\ touched' = IF r.panic THEN touched
                         ELSE Touch(touched, k, DOMAIN r.c.table)
           /\ run' = RunAfterPut(k, v)
    /\ prevGet' = GetHit(lastOp)

Get(k) ==
    /\ ~lastOp.panic
    /\ LET r == get(cache, k)
       IN  /\ cache' = r.c
           /\ lastOp' = Call("get", k, None, cache, r)
           /\ touched' = IF r.panic \/ k \notin DOMAIN cache.table THEN touched
                         ELSE Touch(touched, k, DOMAIN r.c.table)
    /\ run' = RunAfterGet
    /\ prevGet' = NoGet

Init == InitOf(Sizes)

Next ==
    \/ \E k \in Keys, v \in Vals : Put(k, v)
    \/ \E k \in Keys : Get(k)

Spec == Init /\ [][Next]_vars

WideInit == InitOf(WideSizes)

WideNext ==
    \/ \E k \in WideKeys, v \in Vals : Put(k, v)
    \/ \E k \in WideKeys : Get(k)

WideSpec == WideInit /\ [][WideNext]_vars

(***************************************************************************)
(* Expected contents after the puts of run.puts, all of distinct keys: the  *)
(* last min(m, size) of them.                                               *)
(***************************************************************************)
Min(a, b) == IF a < b THEN a ELSE b

LastPuts(s, n) == {s[j] : j \in (Len(s) - Min(Len(s), n) + 1)..Len(s)}

Occupied == Cardinality(DOMAIN cache.table)

(***************************************************************************)
(* The node index reached from index i by following next n times (None     *)
(* once the links run out), and the indices of the nodes whose next is i.   *)
(***************************************************************************)
RECURSIVE Steps(_, _, _)
Steps(c, i, n) ==
    IF n = 0 \/ ~InBounds(c, i) THEN i ELSE Steps(c, c.nodes[i + 1].next, n - 1)

Slots(c) == 0..(Len(c.nodes) - 1)

Pred(c, i) == {j \in Slots(c) : c.nodes[j + 1].next = i}

(***************************************************************************)
(* n keys that no call has used so far, and the outcome of putting the     *)
(* keys of the sequence ks one after the other, stopping at a panic.        *)
(***************************************************************************)
NewKeys(n) == [j \in 1..n |-> NumKeys + 1 + j]

RECURSIVE PutAll(_, _, _)
PutAll(c, ks, v) ==
    IF ks = <<>>
    THEN Ok(c, None)
    ELSE LET r == put(c, Head(ks), v)
         IN  IF r.panic THEN r ELSE PutAll(r.c, Tail(ks), v)

\* C1: on a cache of positive capacity, a put of an absent key into a full
\* cache that evicts a key evicts exactly the least recently touched resident
\* key (touched: created or updated by put, or hit by get).
C1_EvictsLeastRecentlyTouched ==
    [][(cache.size > 0 /\ lastOp'.op = "put" /\ ~lastOp'.hit /\ lastOp'.full
          /\ ~lastOp'.panic)
       => lastOp'.evicted = {Head(touched)}]_vars

\* C2: the number of keys in the table equals the number of nodes and never
\* exceeds the size given to new.
C2_CapacityBound ==
    /\ Occupied = Len(cache.nodes)
    /\ Occupied <= cache.size

C2_Witness ==
    /\ lastOp.op = "put" /\ lastOp.evicted # {} /\ ~lastOp.panic
    /\ Occupied = cache.size /\ cache.size >= 2

\* C3: on a cache of positive size, no put and no get panics.
C3_NoOperationFails == cache.size > 0 => ~lastOp.panic

\* C4: new(0) yields no cache object: no cache of size zero exists.
C4_ZeroCapacityRejected == cache.size # 0

\* C5: a put of key j right after a get hit of key k, j different from k,
\* leaves k in the table.
C5_PromotionOnRead ==
    (lastOp.op = "put" /\ prevGet.key # None /\ lastOp.key # prevGet.key)
        => prevGet.key \in DOMAIN cache.table

C5_Witness ==
    /\ lastOp.op = "put" /\ ~lastOp.panic /\ lastOp.evicted # {}
    /\ prevGet.key # None /\ prevGet.lru /\ lastOp.key # prevGet.key
    /\ prevGet.key \in DOMAIN cache.table

\* C6: a put of a present key k with value v completes, makes get(k) return
\* v, evicts no key and leaves the number of keys and of nodes unchanged.
C6_UpdateInPlace ==
    [][(lastOp'.op = "put" /\ lastOp'.hit)
       => /\ ~lastOp'.panic
          /\ get(cache', lastOp'.key) = Ok(get(cache', lastOp'.key).c, lastOp'.val)
          /\ DOMAIN cache'.table = DOMAIN cache.table
          /\ Len(cache'.nodes) = Len(cache.nodes)]_vars

C6_Witness ==
    /\ lastOp.op = "put" /\ lastOp.hit /\ lastOp.changed /\ ~lastOp.panic
    /\ Occupied = cache.size /\ cache.size >= 2
    /\ cache.table[lastOp.key][1] = lastOp.val

\* C7: a get of a key that is not in the table returns None and leaves the
\* whole cache as it was.
C7_MissHasNoEffect ==
    [][(lastOp'.op = "get" /\ ~lastOp'.hit)
       => (cache' = cache /\ lastOp'.ret = None /\ ~lastOp'.panic)]_vars

C7_Witness ==
    /\ lastOp.op = "get" /\ ~lastOp.hit /\ lastOp.ret = None
    /\ Occupied >= 2

\* C8: on a cache of positive size, a put of an absent key into a full cache
\* removes exactly one key, and no other put or get removes any.
C8_OnlyFullPutRemovesOne ==
    (cache.size > 0 /\ lastOp.op \in {"put", "get"})
        => IF lastOp.op = "put" /\ ~lastOp.hit /\ lastOp.full
           THEN Cardinality(lastOp.evicted) = 1
           ELSE lastOp.evicted = {}

\* C9: after m puts of pairwise distinct keys into a fresh cache, and nothing
\* else, the table holds exactly the last min(m, size) of them with the values
\* put, get returns these values, every other key is absent, and on a cache of
\* positive size none of the puts panicked.
C9_FifoUnderPuts ==
    run.phase = "puts"
        => LET expected == LastPuts(run.puts, cache.size)
           IN  /\ cache.size > 0 => ~lastOp.panic
               /\ DOMAIN cache.table = {e[1] : e \in expected}
               /\ \A e \in expected :
                      get(cache, e[1]) = Ok(get(cache, e[1]).c, e[2])
               /\ \A k \in Keys \ {e[1] : e \in expected} :
                      get(cache, k) = Ok(cache, None)

C9_Witness ==
    /\ run.phase = "puts" /\ Len(run.puts) >= cache.size + 1
    /\ cache.size >= 2 /\ ~lastOp.panic
    /\ run.puts[1][1] \notin DOMAIN cache.table

\* C10: after puts of n <= size pairwise distinct keys into a fresh cache,
\* followed by gets only, every get of a key put returns the value put for it
\* and every get of another key returns None.
C10_PutThenGet ==
    (run.phase \in {"puts", "gets"} /\ Len(run.puts) <= cache.size)
        => LET expected == LastPuts(run.puts, Len(run.puts))
           IN  /\ \A e \in expected :
                      get(cache, e[1]) = Ok(get(cache, e[1]).c, e[2])
               /\ \A k \in Keys \ PutKeys(run.puts) :
                      get(cache, k) = Ok(cache, None)
               /\ (run.phase = "gets" /\ lastOp.op = "get")
                      => /\ ~lastOp.panic
                         /\ \A e \in expected :
                                lastOp.key = e[1] => lastOp.ret = e[2]
                         /\ lastOp.key \notin PutKeys(run.puts)
                                => lastOp.ret = None

C10_Witness ==
    /\ run.phase = "gets" /\ Len(run.puts) = cache.size /\ cache.size >= 2
    /\ lastOp.op = "get" /\ lastOp.hit /\ lastOp.lru
    /\ cache.head # Len(cache.nodes) - 1

\* C11: right after a get hit of k that returned a value, k is still in the
\* table and one more get of k completes and returns that same value.
C11_IdempotentHit ==
    (lastOp.op = "get" /\ lastOp.hit)
        => /\ ~lastOp.panic
           /\ lastOp.key \in DOMAIN cache.table
           /\ get(cache, lastOp.key) = Ok(get(cache, lastOp.key).c, lastOp.ret)

C11_Witness ==
    /\ lastOp.op = "get" /\ lastOp.again /\ lastOp.hit /\ ~lastOp.panic
    /\ lastOp.ret = cache.table[lastOp.key][1]
    /\ Occupied >= 2

\* C13: in a cache that is not empty, following next from the tail reaches
\* the head after exactly (number of nodes - 1) steps and visits every node
\* exactly once.
C13_ChainFromTailToHead ==
    cache.nodes # <<>>
        => LET n == Len(cache.nodes)
           IN  /\ InBounds(cache, cache.tail)
               /\ Steps(cache, cache.tail, n - 1) = cache.head
               /\ {Steps(cache, cache.tail, m) : m \in 0..(n - 1)} = Slots(cache)

\* C14: every key of the table maps to a node index in range whose node
\* stores that key, no two keys map to the same index, the key of every node
\* is in the table, and the table has as many entries as there are nodes.
C14_TableMatchesNodes ==
    /\ \A k \in DOMAIN cache.table :
          /\ InBounds(cache, cache.table[k][2])
          /\ cache.nodes[cache.table[k][2] + 1].key = k
    /\ \A k1, k2 \in DOMAIN cache.table :
          cache.table[k1][2] = cache.table[k2][2] => k1 = k2
    /\ \A i \in Slots(cache) : cache.nodes[i + 1].key \in DOMAIN cache.table
    /\ Occupied = Len(cache.nodes)

C14_Witness ==
    /\ lastOp.op = "put" /\ ~lastOp.panic /\ lastOp.evicted # {}
    /\ cache.size >= 2 /\ Len(cache.nodes) = cache.size
    /\ cache.table[lastOp.key][2] = cache.head
    /\ cache.nodes[cache.head + 1].key = lastOp.key

\* C15: the head node has no next link, no node links to the tail node, and
\* in an empty cache head and tail are both None.
C15_EndsHaveNoLinks ==
    /\ InBounds(cache, cache.head) => cache.nodes[cache.head + 1].next = None
    /\ InBounds(cache, cache.tail) => Pred(cache, cache.tail) = {}
    /\ cache.nodes = <<>> => (cache.head = None /\ cache.tail = None)

\* C16: a get hit or a put of a present key whose node is already the head
\* leaves head, tail and the next link of every node unchanged.
C16_PromoteHeadIsNoOp ==
    [][(lastOp'.op \in {"get", "put"} /\ lastOp'.hit
          /\ cache.table[lastOp'.key][2] = cache.head)
       => /\ ~lastOp'.panic
          /\ cache'.head = cache.head
          /\ cache'.tail = cache.tail
          /\ cache'.nodes = cache.nodes]_vars

\* C17: on a cache of positive size, a put of an absent key k into a full
\* cache completes, removes from the table the key of the tail node and no
\* other, stores k in that same node with next None, maps k to its index,
\* makes it the head, makes the successor of the former tail the new tail
\* (the reused node itself when it was the only node of the chain), and
\* changes neither the number of nodes nor the number of keys.
C17_EvictReusesTailSlot ==
    [][(cache.size > 0 /\ lastOp'.op = "put" /\ ~lastOp'.hit /\ lastOp'.full)
       => /\ ~lastOp'.panic
          /\ InBounds(cache, cache.tail)
          /\ lastOp'.evicted = {cache.nodes[cache.tail + 1].key}
          /\ cache'.nodes[cache.tail + 1] = Node_new(lastOp'.key)
          /\ cache'.table[lastOp'.key] = <<lastOp'.val, cache.tail>>
          /\ cache'.head = cache.tail
          /\ cache'.tail = IF cache.head = cache.tail THEN cache.tail
                            ELSE cache.nodes[cache.tail + 1].next
          /\ Len(cache'.nodes) = Len(cache.nodes)
          /\ Cardinality(DOMAIN cache'.table) = Cardinality(DOMAIN cache.table)
      ]_vars

\* C19: in a cache that holds at least one entry, head and tail are both
\* Some and both are indices of nodes.
C19_HeadAndTailPresent ==
    cache.nodes # <<>>
        => (InBounds(cache, cache.head) /\ InBounds(cache, cache.tail))

\* C18: on a cache of size 1 to 4 no put and no get panics, and every put of
\* an absent key into the full cache evicts exactly the least recently
\* touched resident key.
C18_NoHazardBelowFive ==
    [][(cache.size \in 1..4 /\ lastOp'.op \in {"put", "get"})
       => /\ ~lastOp'.panic
          /\ (lastOp'.op = "put" /\ ~lastOp'.hit /\ lastOp'.full)
                => lastOp'.evicted = {Head(touched)}]_vars

\* C20: from every state of a cache of positive size, size consecutive puts
\* of pairwise distinct keys that were all absent, once they have all
\* completed, leave exactly those keys in the table and none of the keys
\* resident before.
C20_NoEntryStuck ==
    (cache.size > 0 /\ ~lastOp.panic)
        => LET ks == NewKeys(cache.size)
               r == PutAll(cache, ks, 1)
           IN  ~r.panic => DOMAIN r.c.table = {ks[j] : j \in 1..Len(ks)}

====
